---------------------------- MODULE Spec2Model ----------------------------
(***************************************************************************)
(* A model of kfp.dsl.ContainerOp (sdk/python/kfp/dsl/_container_op.py):   *)
(* construction of an op inside the default pipeline, the scan of its      *)
(* command and arguments for pipeline-parameter tokens, its outputs, the   *)
(* explicit after() edge and the builder-style setters.                    *)
(*                                                                         *)
(* Python strings are sequences of one-character strings, so that the      *)
(* regular expressions of the source are computed character by character.  *)
(* An optional value (None or a value) is the empty set or a singleton.    *)
(* A dict is a set of <<key, value>> pairs with at most one pair per key.  *)
(***************************************************************************)
EXTENDS Integers, Sequences, FiniteSets, TLC

(***************************************************************************)
(* Bounds of the model.                                                    *)
(***************************************************************************)
\* ContainerOp objects constructed in one behaviour.
MaxOps == 3
\* Depth of nested pipeline contexts.
MaxNest == 2
\* Length of the op, name and value fields of a serialized token.
MaxField == 2

(***************************************************************************)
(* Characters and character classes of Python's re module.                 *)
(***************************************************************************)
UpperCase == <<"A","B","C","D","E","F","G","H","I","J","K","L","M",
               "N","O","P","Q","R","S","T","U","V","W","X","Y","Z">>
LowerCase == <<"a","b","c","d","e","f","g","h","i","j","k","l","m",
               "n","o","p","q","r","s","t","u","v","w","x","y","z">>

Range(f) == {f[i] : i \in DOMAIN f}

\* [A-Za-z]
Letters == Range(UpperCase) \cup Range(LowerCase)
\* [0-9]
Digits == {"0","1","2","3","4","5","6","7","8","9"}
\* \s
Whitespace == {" ", "\t", "\n", "\r"}
\* [A-Za-z0-9\s_-]
NameTailChars == Letters \cup Digits \cup Whitespace \cup {"_", "-"}
\* [\w]
WordChars == Letters \cup Digits \cup {"_"}
\* [\w\s_-]
ParamChars == Letters \cup Digits \cup Whitespace \cup {"_", "-"}

None == {}
Some(x) == {x}
TheValue(o) == CHOOSE x \in o : TRUE

\* dict helpers
Keys(m) == {p[1] : p \in m}
Put(m, k, v) == {p \in m : p[1] # k} \cup {<<k, v>>}

\* s[i..j-1]
Slice(s, i, j) == [k \in 1..(j - i) |-> s[i + k - 1]]

\* the literal lit occurs in s at position i
HasAt(s, i, lit) ==
    /\ i + Len(lit) - 1 <= Len(s)
    /\ \A k \in 1..Len(lit) : s[i + k - 1] = lit[k]

\* the end (exclusive) of the longest run of characters of class C from i
RunEnd(s, i, C) ==
    IF \E j \in i..Len(s) : s[j] \notin C
    THEN CHOOSE j \in i..Len(s) : s[j] \notin C /\ \A k \in i..(j - 1) : s[k] \in C
    ELSE Len(s) + 1


(***************************************************************************)
(* The display-name check of ContainerOp.__init__:                         *)
(*   re.match(r'^[A-Za-z][A-Za-z0-9\s_-]*$', name)                         *)
(* ($ also matches before a final newline, which the class \s already      *)
(* admits.)                                                                *)
(***************************************************************************)
ValidNameNoSpace(name) ==
    /\ Len(name) >= 1
    /\ name[1] \in Letters
    /\ \A k \in 2..Len(name) : name[k] \in NameTailChars \ Whitespace

ValidNameFirstOnly(name) ==
    /\ Len(name) >= 1
    /\ name[1] \in Letters

ValidName(name) ==
    /\ Len(name) >= 1
    /\ name[1] \in Letters
    /\ \A k \in 2..Len(name) : name[k] \in NameTailChars

(***************************************************************************)
(* The token {{pipelineparam:op=<op>;name=<name>;value=<value>}}.          *)
(***************************************************************************)
TokenOpen == <<"{","{","p","i","p","e","l","i","n","e","p","a","r","a","m",":","o","p","=">>
TokenName == <<";","n","a","m","e","=">>
TokenValue == <<";","v","a","l","u","e","=">>
TokenClose == <<"}","}">>

\* str(PipelineParam): the token of (op, name, value)
Serialize(op, name, value) ==
    TokenOpen \o op \o TokenName \o name \o TokenValue \o value \o TokenClose

(***************************************************************************)
(* One match of                                                            *)
(*   {{pipelineparam:op=G1;name=G2;value=G3}}                              *)
(* with G1 = ([\w\s_-]* ), G2 = ([\w\s_-]+), G3 = (.*?),                   *)
(* starting at position i of s.  ';' is in neither character class, so the *)
(* greedy groups 1 and 2 are the longest runs of their class and must be   *)
(* followed by the next literal; group 3 is lazy and '.' matches anything  *)
(* but a newline, so it ends at the first "}}" and the match fails when a  *)
(* newline comes before it.  The result is <<found, group triple, end>>.   *)
(***************************************************************************)
NoMatch == <<FALSE, <<>>, 0>>

ValueEnd(s, e) ==
    IF \E f \in e..Len(s) : HasAt(s, f, TokenClose)
    THEN CHOOSE f \in e..Len(s) :
            HasAt(s, f, TokenClose) /\ \A g \in e..(f - 1) : ~HasAt(s, g, TokenClose)
    ELSE 0

MatchAt(s, i) ==
    IF ~HasAt(s, i, TokenOpen) THEN NoMatch
    ELSE LET a == i + Len(TokenOpen)
             b == RunEnd(s, a, ParamChars)
         IN IF ~HasAt(s, b, TokenName) THEN NoMatch
            ELSE LET c == b + Len(TokenName)
                     d == RunEnd(s, c, ParamChars)
                 IN IF d = c \/ ~HasAt(s, d, TokenValue) THEN NoMatch
                    ELSE LET e == d + Len(TokenValue)
                             f == ValueEnd(s, e)
                         IN IF f = 0 \/ \E g \in e..(f - 1) : s[g] = "\n"
                            THEN NoMatch
                            ELSE <<TRUE,
                                   <<Slice(s, a, b), Slice(s, c, d), Slice(s, e, f)>>,
                                   f + Len(TokenClose)>>

\* re.findall(pattern, s): the non-overlapping matches, left to right
RECURSIVE FindAllFrom(_, _)
FindAllFrom(s, i) ==
    IF i > Len(s) THEN <<>>
    ELSE LET m == MatchAt(s, i)
         IN IF m[1] THEN <<m[2]>> \o FindAllFrom(s, m[3])
            ELSE FindAllFrom(s, i + 1)

FindAll(s) == FindAllFrom(s, 1)

(***************************************************************************)
(* _pipeline_param.PipelineParam(name, op_name, value).                    *)
(***************************************************************************)
PipelineParam(name, op_name, value) ==
    [name |-> name, op_name |-> op_name, value |-> value]

(***************************************************************************)
(* _pipeline.Pipeline: the registry of one pipeline under construction.    *)
(* nodes holds the registered ops (as positions in the variable ops) in    *)
(* registration order.                                                     *)
(***************************************************************************)
NewPipeline == [nodes |-> <<>>, exit_handler_nodes |-> {}, used_identities |-> {}]

Lower(c) ==
    IF \E i \in DOMAIN UpperCase : UpperCase[i] = c
    THEN LowerCase[CHOOSE i \in DOMAIN UpperCase : UpperCase[i] = c]
    ELSE c

DigitChars == <<"0","1","2","3","4","5","6","7","8","9">>

RECURSIVE DecStr(_)
DecStr(n) == IF n < 10 THEN <<DigitChars[n + 1]>>
             ELSE DecStr(n \div 10) \o <<DigitChars[(n % 10) + 1]>>

\* lower-case the name and collapse each run of non-alphanumerics to "-"
RECURSIVE Normalize(_)
Normalize(s) ==
    IF s = <<>> THEN <<>>
    ELSE IF Head(s) \in Letters \cup Digits
         THEN <<Lower(Head(s))>> \o Normalize(Tail(s))
         ELSE <<"-">> \o Normalize(Slice(s, RunEnd(s, 1, (Range(s) \ Letters) \ Digits), Len(s) + 1))

\* the identity add_op gives an op of this display name
UniqueName(human_name, used) ==
    LET base == Normalize(human_name)
    IN IF base \notin used THEN base
       ELSE LET i == CHOOSE i \in 1..(Cardinality(used) + 1) :
                        /\ (base \o <<"-">> \o DecStr(i)) \notin used
                        /\ \A j \in 1..(i - 1) : (base \o <<"-">> \o DecStr(j)) \in used
            IN base \o <<"-">> \o DecStr(i)

\* Pipeline.add_op(op, is_exit_handler): the registry after registering op
\* (position idx of ops) under identity
AddOp(p, idx, identity, is_exit_handler) ==
    [nodes |-> Append(p.nodes, idx),
     exit_handler_nodes |-> IF is_exit_handler THEN p.exit_handler_nodes \cup {idx}
                            ELSE p.exit_handler_nodes,
     used_identities |-> p.used_identities \cup {identity}]

(***************************************************************************)
(* The validators of the resource setters.                                 *)
(***************************************************************************)
\* s without one final newline: where $ may match
BeforeDollar(s) ==
    {s} \cup (IF Len(s) >= 1 /\ s[Len(s)] = "\n" THEN {SubSeq(s, 1, Len(s) - 1)} ELSE {})

MemoryUnits == {<<"E">>, <<"E","i">>, <<"P">>, <<"P","i">>, <<"T">>, <<"T","i">>,
                <<"G">>, <<"G","i">>, <<"M">>, <<"M","i">>, <<"K">>, <<"K","i">>}

\* re.match(r'^[0-9]+(E|Ei|P|Pi|T|Ti|G|Gi|M|Mi|K|Ki){0,1}$', s) is not None
IsMemoryString(s) ==
    \E b \in BeforeDollar(s) :
        LET d == RunEnd(b, 1, Digits)
        IN /\ d > 1
           /\ (d = Len(b) + 1 \/ Slice(b, d, Len(b) + 1) \in MemoryUnits)

\* re.match(r'^[0-9]+m$', s) is not None
IsMilliCpuString(s) ==
    \E b \in BeforeDollar(s) :
        LET d == RunEnd(b, 1, Digits)
        IN d > 1 /\ d = Len(b) /\ b[d] = "m"

\* str.strip() as float() and int() apply it
Strip(s) ==
    IF \A k \in DOMAIN s : s[k] \in Whitespace THEN <<>>
    ELSE LET a == CHOOSE i \in DOMAIN s :
                      s[i] \notin Whitespace /\ \A k \in 1..(i - 1) : s[k] \in Whitespace
             b == CHOOSE i \in DOMAIN s :
                      s[i] \notin Whitespace /\ \A k \in (i + 1)..Len(s) : s[k] \in Whitespace
         IN Slice(s, a, b + 1)

Unsigned(s) == IF Len(s) >= 1 /\ s[1] \in {"+", "-"} THEN Tail(s) ELSE s

\* digits, with single underscores allowed between digits
IsDigitPart(s) ==
    /\ Len(s) >= 1
    /\ s[1] \in Digits /\ s[Len(s)] \in Digits
    /\ \A k \in DOMAIN s : s[k] \in Digits \cup {"_"}
    /\ \A k \in 1..(Len(s) - 1) : ~(s[k] = "_" /\ s[k + 1] = "_")

IsMantissa(m) ==
    \/ IsDigitPart(m)
    \/ \E i \in DOMAIN m :
          /\ m[i] = "."
          /\ LET l == Slice(m, 1, i)
                 r == Slice(m, i + 1, Len(m) + 1)
             IN /\ l = <<>> \/ IsDigitPart(l)
                /\ r = <<>> \/ IsDigitPart(r)
                /\ ~(l = <<>> /\ r = <<>>)

LowerStr(s) == [k \in DOMAIN s |-> Lower(s[k])]

\* float(s) returns (does not raise ValueError)
IsFloatString(s) ==
    LET u == Unsigned(Strip(s))
    IN \/ LowerStr(u) \in {<<"i","n","f">>, <<"n","a","n">>,
                           <<"i","n","f","i","n","i","t","y">>}
       \/ IsMantissa(u)
       \/ \E i \in DOMAIN u :
             /\ u[i] \in {"e", "E"}
             /\ IsMantissa(Slice(u, 1, i))
             /\ IsDigitPart(Unsigned(Slice(u, i + 1, Len(u) + 1)))

\* _validate_cpu_string(s) returns
IsCpuString(s) == IsMilliCpuString(s) \/ IsFloatString(s)

\* int(s) returns (does not raise ValueError)
IsIntString(s) == IsDigitPart(Unsigned(Strip(s)))

DigitValue(c) == (CHOOSE i \in DOMAIN DigitChars : DigitChars[i] = c) - 1

RECURSIVE DigitsValue(_)
DigitsValue(s) ==
    IF s = <<>> THEN 0
    ELSE LET c == s[Len(s)]
             r == SubSeq(s, 1, Len(s) - 1)
         IN IF c = "_" THEN DigitsValue(r) ELSE 10 * DigitsValue(r) + DigitValue(c)

\* int(s)
IntValue(s) ==
    LET t == Strip(s)
    IN IF Len(t) >= 1 /\ t[1] = "-" THEN 0 - DigitsValue(Tail(t))
       ELSE DigitsValue(Unsigned(t))

\* _validate_positive_number(str_value, param_name): the message of the
\* ValueError raised, or "" when it returns
ValidatePositiveNumber(str_value, param_name) ==
    IF ~IsIntString(str_value) THEN "Invalid " \o param_name \o ". Should be integer."
    ELSE IF IntValue(str_value) <= 0 THEN param_name \o " must be positive integer."
    ELSE ""

(***************************************************************************)
(* State.                                                                  *)
(*   stack  the pipelines under construction, innermost last; the default  *)
(*          pipeline is the last one, and there is none when it is empty   *)
(*   ops    the ContainerOp objects constructed so far                     *)
(*   params the PipelineParam objects the pipeline function holds          *)
(*   last   the last call made: its name, the op it was made on (0 for a   *)
(*          constructor that raised), its arguments, and the message of    *)
(*          the ValueError it raised ("" when it returned)                 *)
(***************************************************************************)
VARIABLES stack, ops, params, last

vars == <<stack, ops, params, last>>

DefaultPipelineNotDefined == "Default pipeline not defined."
InvalidOpName ==
    "Only letters, numbers, spaces, \"_\", and \"-\"  are allowed in name. Must begin with letter: %s"
InvalidMemoryString ==
    "Invalid memory string. Should be an integer, or integer followed by one of \"E|Ei|P|Pi|T|Ti|G|Gi|M|Mi|K|Ki\""
InvalidCpuString ==
    "Invalid cpu string. Should be float or integer, or integer followed by \"m\"."
InvalidVendor == "vendor can only be nvidia or amd."

Call(name, self, args, raised) ==
    [call |-> name, self |-> self, args |-> args, raised |-> raised]

Init ==
    /\ stack = <<>>
    /\ ops = <<>>
    /\ params = <<>>
    /\ last = Call("import", 0, <<>>, "")

\* Pipeline.get_default_pipeline()
HasDefaultPipeline == stack # <<>>
DefaultPipeline == stack[Len(stack)]

\* Pipeline.__enter__: a new pipeline becomes the default one
EnterPipeline ==
    /\ stack' = Append(stack, NewPipeline)
    /\ last' = Call("Pipeline.__enter__", 0, <<>>, "")
    /\ UNCHANGED <<ops, params>>

\* Pipeline.__exit__: the enclosing pipeline, if any, is the default one again
ExitPipeline ==
    /\ HasDefaultPipeline
    /\ stack' = SubSeq(stack, 1, Len(stack) - 1)
    /\ last' = Call("Pipeline.__exit__", 0, <<>>, "")
    /\ UNCHANGED <<ops, params>>

(***************************************************************************)
(* ContainerOp.__init__                                                    *)
(***************************************************************************)
\* (command or []) + (arguments or [])
OrEmpty(o) == IF o = None THEN <<>> ELSE TheValue(o)

\* the matches of all strings of the list, in order
RECURSIVE MatchesOf(_)
MatchesOf(args) ==
    IF args = <<>> THEN <<>> ELSE FindAll(Head(args)) \o MatchesOf(Tail(args))

MatchesCommandOnly(command, arguments) == MatchesOf(OrEmpty(command))

Matches(command, arguments) == MatchesOf(OrEmpty(command) \o OrEmpty(arguments))

\* the lists list(S) can be for a set S: Python leaves the order open, and
\* for strings it varies from run to run with the hash seed
ListsOfSet(S) ==
    {l \in [1..Cardinality(S) -> S] : \A i, j \in 1..Cardinality(S) : l[i] = l[j] => i = j}

\* [PipelineParam(x[1], x[0], x[2]) for x in list(set(matches))], for one
\* order of the set
ArgumentInputsSwapped(order) ==
    [k \in DOMAIN order |-> PipelineParam(order[k][1], order[k][2], Some(order[k][3]))]

ArgumentInputs(order) ==
    [k \in DOMAIN order |-> PipelineParam(order[k][2], order[k][1], Some(order[k][3]))]

\* self.outputs
OutputsByHumanName(file_outputs, human_name, name) ==
    IF file_outputs = None \/ TheValue(file_outputs) = {} THEN {}
    ELSE {<<k, PipelineParam(k, human_name, None)>> : k \in Keys(TheValue(file_outputs))}

Outputs(file_outputs, human_name, name) ==
    IF file_outputs = None \/ TheValue(file_outputs) = {} THEN {}
    ELSE {<<k, PipelineParam(k, name, None)>> : k \in Keys(TheValue(file_outputs))}

\* self.output
Output(outputs) ==
    IF Cardinality(outputs) = 1 THEN Some((CHOOSE p \in outputs : TRUE)[2]) ELSE None

\* the object __init__ leaves behind when it returns
NewOp(name, image, command, arguments, file_outputs, is_exit_handler, identity, order) ==
    LET outputs == Outputs(file_outputs, name, identity)
    IN [human_name |-> name,
        name |-> identity,
        image |-> image,
        command |-> command,
        arguments |-> arguments,
        is_exit_handler |-> is_exit_handler,
        resource_limits |-> {},
        resource_requests |-> {},
        node_selector |-> {},
        volumes |-> <<>>,
        volume_mounts |-> <<>>,
        env_variables |-> <<>>,
        pod_annotations |-> {},
        pod_labels |-> {},
        num_retries |-> 0,
        argument_inputs |-> ArgumentInputs(order),
        file_outputs |-> file_outputs,
        dependent_op_names |-> <<>>,
        inputs |-> ArgumentInputs(order),
        outputs |-> outputs,
        output |-> Output(outputs)]

\* the ValueError __init__ raises before it touches anything, or ""
InitRaisesNameFirst(name) ==
    IF ~ValidName(name) THEN InvalidOpName
    ELSE IF ~HasDefaultPipeline THEN DefaultPipelineNotDefined
    ELSE ""

InitRaises(name) ==
    IF ~HasDefaultPipeline THEN DefaultPipelineNotDefined
    ELSE IF ~ValidName(name) THEN InvalidOpName
    ELSE ""

ContainerOpInit(name, image, command, arguments, file_outputs, is_exit_handler) ==
    LET args == <<name, image, command, arguments, file_outputs, is_exit_handler>>
    IN IF InitRaises(name) # ""
       THEN /\ last' = Call("ContainerOp", 0, args, InitRaises(name))
            /\ UNCHANGED <<stack, ops, params>>
       ELSE LET idx == Len(ops) + 1
                identity == UniqueName(name, DefaultPipeline.used_identities)
            IN \E order \in ListsOfSet(Range(Matches(command, arguments))) :
                  /\ stack' = [stack EXCEPT ![Len(stack)] =
                                  AddOp(DefaultPipeline, idx, identity, is_exit_handler)]
                  /\ ops' = Append(ops, NewOp(name, image, command, arguments,
                                              file_outputs, is_exit_handler, identity, order))
                  /\ last' = Call("ContainerOp", idx, args, "")
                  /\ UNCHANGED params

(***************************************************************************)
(* The methods of a constructed op, ops[i].  None of them reads or writes  *)
(* the pipelines.                                                          *)
(***************************************************************************)
\* after(op): self is ops[i], op is ops[j]
AfterByHumanName(i, j) ==
    /\ ops' = [ops EXCEPT ![i].dependent_op_names = Append(@, ops[j].human_name)]
    /\ last' = Call("after", i, <<j>>, "")
    /\ UNCHANGED <<stack, params>>

After(i, j) ==
    /\ ops' = [ops EXCEPT ![i].dependent_op_names = Append(@, ops[j].name)]
    /\ last' = Call("after", i, <<j>>, "")
    /\ UNCHANGED <<stack, params>>

\* a call on ops[i] that raised
Raise(call, i, args, message) ==
    /\ last' = Call(call, i, args, message)
    /\ UNCHANGED <<stack, ops, params>>

AddResourceLimit(call, i, args, resource_name, value) ==
    /\ ops' = [ops EXCEPT ![i].resource_limits = Put(@, resource_name, value)]
    /\ last' = Call(call, i, args, "")
    /\ UNCHANGED <<stack, params>>

AddResourceRequest(call, i, args, resource_name, value) ==
    /\ ops' = [ops EXCEPT ![i].resource_requests = Put(@, resource_name, value)]
    /\ last' = Call(call, i, args, "")
    /\ UNCHANGED <<stack, params>>

add_resource_limit(i, resource_name, value) ==
    AddResourceLimit("add_resource_limit", i, <<resource_name, value>>, resource_name, value)

add_resource_request(i, resource_name, value) ==
    AddResourceRequest("add_resource_request", i, <<resource_name, value>>, resource_name, value)

\* a setter that stores first and validates afterwards
set_memory_request_unchecked(i, memory) ==
    /\ ops' = [ops EXCEPT ![i].resource_requests = Put(@, "memory", memory)]
    /\ last' = Call("set_memory_request", i, <<memory>>,
                    IF IsMemoryString(memory) THEN "" ELSE InvalidMemoryString)
    /\ UNCHANGED <<stack, params>>

set_memory_request(i, memory) ==
    IF ~IsMemoryString(memory)
    THEN Raise("set_memory_request", i, <<memory>>, InvalidMemoryString)
    ELSE AddResourceRequest("set_memory_request", i, <<memory>>, "memory", memory)

set_memory_limit(i, memory) ==
    IF ~IsMemoryString(memory)
    THEN Raise("set_memory_limit", i, <<memory>>, InvalidMemoryString)
    ELSE AddResourceLimit("set_memory_limit", i, <<memory>>, "memory", memory)

set_cpu_request(i, cpu) ==
    IF ~IsCpuString(cpu)
    THEN Raise("set_cpu_request", i, <<cpu>>, InvalidCpuString)
    ELSE AddResourceRequest("set_cpu_request", i, <<cpu>>, "cpu", cpu)

set_cpu_limit(i, cpu) ==
    IF ~IsCpuString(cpu)
    THEN Raise("set_cpu_limit", i, <<cpu>>, InvalidCpuString)
    ELSE AddResourceLimit("set_cpu_limit", i, <<cpu>>, "cpu", cpu)

\* "%s.com/gpu" % vendor
GpuResource(vendor) == vendor \o ".com/gpu"

set_gpu_limit(i, gpu, vendor) ==
    IF ValidatePositiveNumber(gpu, "gpu") # ""
    THEN Raise("set_gpu_limit", i, <<gpu, vendor>>, ValidatePositiveNumber(gpu, "gpu"))
    ELSE IF vendor # "nvidia" /\ vendor # "amd"
    THEN Raise("set_gpu_limit", i, <<gpu, vendor>>, InvalidVendor)
    ELSE AddResourceLimit("set_gpu_limit", i, <<gpu, vendor>>, GpuResource(vendor), gpu)

add_volume_as_dependency(i, volume) ==
    /\ ops' = [ops EXCEPT ![i].dependent_op_names = Append(@, volume)]
    /\ last' = Call("add_volume", i, <<volume>>, "")
    /\ UNCHANGED <<stack, params>>

add_volume(i, volume) ==
    /\ ops' = [ops EXCEPT ![i].volumes = Append(@, volume)]
    /\ last' = Call("add_volume", i, <<volume>>, "")
    /\ UNCHANGED <<stack, params>>

add_volume_mount(i, volume_mount) ==
    /\ ops' = [ops EXCEPT ![i].volume_mounts = Append(@, volume_mount)]
    /\ last' = Call("add_volume_mount", i, <<volume_mount>>, "")
    /\ UNCHANGED <<stack, params>>

add_env_variable(i, env_variable) ==
    /\ ops' = [ops EXCEPT ![i].env_variables = Append(@, env_variable)]
    /\ last' = Call("add_env_variable", i, <<env_variable>>, "")
    /\ UNCHANGED <<stack, params>>

add_node_selector_constraint(i, label_name, value) ==
    /\ ops' = [ops EXCEPT ![i].node_selector = Put(@, label_name, value)]
    /\ last' = Call("add_node_selector_constraint", i, <<label_name, value>>, "")
    /\ UNCHANGED <<stack, params>>

add_pod_annotation(i, name, value) ==
    /\ ops' = [ops EXCEPT ![i].pod_annotations = Put(@, name, value)]
    /\ last' = Call("add_pod_annotation", i, <<name, value>>, "")
    /\ UNCHANGED <<stack, params>>

add_pod_label(i, name, value) ==
    /\ ops' = [ops EXCEPT ![i].pod_labels = Put(@, name, value)]
    /\ last' = Call("add_pod_label", i, <<name, value>>, "")
    /\ UNCHANGED <<stack, params>>

set_retry(i, num_retries) ==
    /\ ops' = [ops EXCEPT ![i].num_retries = num_retries]
    /\ last' = Call("set_retry", i, <<num_retries>>, "")
    /\ UNCHANGED <<stack, params>>

(***************************************************************************)
(* Registration: pipelines are entered and left and ops are constructed    *)
(* under display names that match the name pattern, collide with each      *)
(* other or with a generated identity, or do not match.                    *)
(***************************************************************************)
\* "t", "T", "t-1", "t ": all match the pattern
GoodNames == {<<"t">>, <<"T">>, <<"t","-","1">>, <<"t"," ">>}
\* "", "1t", "t!", "_t": none matches
BadNames == {<<>>, <<"1","t">>, <<"t","!">>, <<"_","t">>}

Image == <<"p","y","t","h","o","n",":","3",".","5","-","j","e","s","s","i","e">>

RegistryEnter ==
    /\ Len(stack) < MaxNest
    /\ EnterPipeline

RegistryExit == ExitPipeline

\* the display names and is_exit_handler flags given
RegistryInputs ==
    ((GoodNames \cup BadNames) \X {FALSE}) \cup {<<<<"t">>, TRUE>>, <<<<"t", "!">>, TRUE>>}

RegistryConstruct ==
    /\ Len(ops) < MaxOps
    /\ \E in \in RegistryInputs :
          ContainerOpInit(in[1], Image, None, None, None, in[2])

NextRegistry == RegistryEnter \/ RegistryExit \/ RegistryConstruct

SpecRegistry == Init /\ [][NextRegistry]_vars

(***************************************************************************)
(* Properties of registration, under SpecRegistry.                         *)
(***************************************************************************)
\* the identities of the ops registered in pipeline p, in registration order
IdentitiesOf(p) == [k \in DOMAIN p.nodes |-> ops[p.nodes[k]].name]

UniqueIdentities ==
    \A d \in DOMAIN stack :
        LET ids == IdentitiesOf(stack[d])
        IN /\ \A j, k \in DOMAIN ids : ids[j] = ids[k] => j = k
           /\ Range(ids) = stack[d].used_identities

\* a step that constructs an op under a matching name while a pipeline is
\* the default one returns, and registers the new op last in that pipeline
GoodNameSucceeds ==
    (/\ last'.call = "ContainerOp"
     /\ HasDefaultPipeline
     /\ last'.args[1] \in GoodNames)
    => /\ last'.raised = ""
       /\ last'.self = Len(ops) + 1
       /\ Len(ops') = Len(ops) + 1
       /\ ops'[Len(ops')].human_name = last'.args[1]
       /\ Len(stack') = Len(stack)
       /\ stack'[Len(stack')].nodes = Append(DefaultPipeline.nodes, Len(ops'))
       /\ ops'[Len(ops')].name \notin DefaultPipeline.used_identities

\* C1: in every pipeline under construction no two registered ops have the
\* same identity (and the identities used are exactly theirs), whatever
\* display names the ops were constructed with; and every construction
\* inside a pipeline under a display name that matches the name pattern
\* returns and registers the op under an identity not used before.
C1_UniqueIdentity == [](UniqueIdentities) /\ [][GoodNameSucceeds]_vars

\* three ops of one pipeline constructed with the same display name "t",
\* each under an identity of its own
C1_Witness ==
    /\ HasDefaultPipeline
    /\ Len(DefaultPipeline.nodes) = 3
    /\ \A k \in 1..3 : ops[DefaultPipeline.nodes[k]].human_name = <<"t">>
    /\ Cardinality(DefaultPipeline.used_identities) = 3
    /\ last.call = "ContainerOp" /\ last.raised = ""

\* C2: a construction inside a pipeline under a display name that does not
\* match the name pattern raises the invalid-name error and leaves every
\* pipeline (its nodes, its used identities, its exit handlers) and every
\* op as it was.
C2_BadNameRejected ==
    [][(/\ last'.call = "ContainerOp"
        /\ HasDefaultPipeline
        /\ last'.args[1] \in BadNames)
       => /\ last'.raised = InvalidOpName
          /\ last'.self = 0
          /\ stack' = stack
          /\ ops' = ops]_vars

\* a rejected construction in a pipeline that already holds an op
C2_Witness ==
    /\ last.call = "ContainerOp"
    /\ last.args[1] \in BadNames
    /\ last.raised = InvalidOpName
    /\ HasDefaultPipeline
    /\ DefaultPipeline.nodes # <<>>

\* C3: a construction while no pipeline is the default one raises the
\* no-default-pipeline error whatever its arguments, a display name that
\* does not match included, and constructs and registers nothing.
C3_NoPipelineRejected ==
    [][(/\ last'.call = "ContainerOp"
        /\ ~HasDefaultPipeline)
       => /\ last'.raised = DefaultPipelineNotDefined
          /\ last'.self = 0
          /\ stack' = stack
          /\ ops' = ops]_vars

\* such a construction under a display name that does not match, after a
\* pipeline with an op in it was left
C3_Witness ==
    /\ last.call = "ContainerOp"
    /\ last.raised = DefaultPipelineNotDefined
    /\ last.args[1] \in BadNames
    /\ ~HasDefaultPipeline
    /\ ops # <<>>

(***************************************************************************)
(* Wiring: ops are constructed, in one pipeline, from commands and         *)
(* arguments that embed tokens, and with declared file outputs.  A text is *)
(* written as a sequence of pieces, each a literal or a reference          *)
(* <<op, name, value>> embedded as its token: Render is the string the     *)
(* constructor is given, Refs the references that were embedded.           *)
(***************************************************************************)
\* ops of a pipeline whose wiring or resources are looked at
MaxWired == 1

Lit(chars) == [ref |-> None, chars |-> chars]
Ref(triple) == [ref |-> Some(triple), chars |-> Serialize(triple[1], triple[2], triple[3])]

RECURSIVE Render(_)
Render(text) == IF text = <<>> THEN <<>> ELSE Head(text).chars \o Render(Tail(text))

RECURSIVE Refs(_)
Refs(text) ==
    IF text = <<>> THEN <<>>
    ELSE (IF Head(text).ref = None THEN <<>> ELSE <<TheValue(Head(text).ref)>>)
         \o Refs(Tail(text))

RenderAll(texts) == [k \in DOMAIN texts |-> Render(texts[k])]

RECURSIVE RefsAll(_)
RefsAll(texts) == IF texts = <<>> THEN <<>> ELSE Refs(Head(texts)) \o RefsAll(Tail(texts))

\* op=a;name=x;value=1
RefA == <<<<"a">>, <<"x">>, <<"1">>>>
\* the same name and value from another op
RefB == <<<<"b">>, <<"x">>, <<"1">>>>
\* the same op and name with another value
RefC == <<<<"a">>, <<"x">>, <<"2">>>>
\* a pipeline-level parameter: no op
RefD == <<<<>>, <<"x">>, <<"1">>>>
AllRefs == {RefA, RefB, RefC, RefD}

\* "echo <A> <A>"
TextEchoAA == <<Lit(<<"e","c","h","o"," ">>), Ref(RefA), Lit(<<" ">>), Ref(RefA)>>
\* "<B>"
TextB == <<Ref(RefB)>>
\* "<C> <D>"
TextCD == <<Ref(RefC), Lit(<<" ">>), Ref(RefD)>>
\* "echo"
TextEcho == <<Lit(<<"e","c","h","o">>)>>
\* a token with an empty name is no token
TextNoName == <<Lit(<<"{","{","p","i","p","e","l","i","n","e","p","a","r","a","m",":","o","p","=","a",";","n","a","m","e","=",";","v","a","l","u","e","=","1","}","}">>)>>

\* the command and arguments lists given, None being the empty set
WiredCommands == {None, Some(<<TextEchoAA>>), Some(<<TextEcho, TextB>>)}
WiredArguments == {None, Some(<<TextEchoAA>>), Some(<<TextCD>>), Some(<<TextNoName>>)}

RenderOpt(o) == IF o = None THEN None ELSE Some(RenderAll(TheValue(o)))
RefsOpt(o) == IF o = None THEN <<>> ELSE RefsAll(TheValue(o))

OutModel == <<<<"m","o","d","e","l">>, <<"/","o","u","t","/","m","o","d","e","l">>>>
OutA == <<<<"a">>, <<"/","a">>>>
OutB == <<<<"b">>, <<"/","b">>>>
WiredFileOutputs == {None, Some({}), Some({OutModel}), Some({OutA, OutB})}

WiredNames == {<<"T">>, <<"t">>}

WiringEnter ==
    /\ ~HasDefaultPipeline
    /\ EnterPipeline

WiringConstruct ==
    /\ Len(ops) < MaxWired
    /\ \E name \in WiredNames, command \in WiredCommands, arguments \in WiredArguments,
          file_outputs \in WiredFileOutputs :
          ContainerOpInit(name, Image, RenderOpt(command), RenderOpt(arguments),
                          file_outputs, FALSE)

NextWiring == WiringEnter \/ WiringConstruct

SpecWiring == Init /\ [][NextWiring]_vars

(***************************************************************************)
(* Properties of wiring, under SpecWiring.                                 *)
(***************************************************************************)
\* the references embedded in the command and then the arguments op was
\* constructed from
Embedded(op) ==
    LET ca == CHOOSE ca \in WiredCommands \X WiredArguments :
                  RenderOpt(ca[1]) = op.command /\ RenderOpt(ca[2]) = op.arguments
    IN RefsOpt(ca[1]) \o RefsOpt(ca[2])

\* s without the later occurrences of an element
RECURSIVE FirstSeen(_)
FirstSeen(s) ==
    IF s = <<>> THEN <<>>
    ELSE LET r == FirstSeen(SubSeq(s, 1, Len(s) - 1))
         IN IF s[Len(s)] \in Range(r) THEN r ELSE Append(r, s[Len(s)])

\* the parameter reference of an embedded <<op, name, value>>
ParamOf(ref) == [name |-> ref[2], op_name |-> ref[1], value |-> Some(ref[3])]

ExpectedInputs(op) ==
    LET refs == FirstSeen(Embedded(op)) IN [k \in DOMAIN refs |-> ParamOf(refs[k])]

Count(s, x) == Cardinality({k \in DOMAIN s : s[k] = x})

\* C4 as stated: the inputs of an op are the distinct references embedded in
\* its command and then its arguments, in the order in which each is first
\* seen.
C4_DiscoveryOrder ==
    \A i \in DOMAIN ops : ops[i].inputs = ExpectedInputs(ops[i])

\* C4 as amended: the inputs of an op are the distinct references embedded
\* in its command and then its arguments, each once, in some order: inputs
\* is a rearrangement of the first-seen list.
C4_InputsRearrangeDiscovered ==
    \A i \in DOMAIN ops :
        LET expected == ExpectedInputs(ops[i])
        IN /\ Len(ops[i].inputs) = Len(expected)
           /\ \A k \in DOMAIN expected : \E j \in DOMAIN ops[i].inputs :
                 ops[i].inputs[j] = expected[k]
           /\ ops[i].argument_inputs = ops[i].inputs

\* an op with references from its command and from its arguments, whose
\* inputs are not in first-seen order
C4_Witness ==
    \E i \in DOMAIN ops :
        /\ ops[i].command # None /\ ops[i].arguments # None
        /\ Len(ops[i].inputs) = 3
        /\ ops[i].inputs # ExpectedInputs(ops[i])
        /\ ParamOf(RefB) \in Range(ops[i].inputs)
        /\ ParamOf(RefD) \in Range(ops[i].inputs)

\* C5: each embedded reference occurs in inputs exactly once, however often
\* its token occurs in one string or across command and arguments, and a
\* reference that is not embedded does not occur; references that share a
\* name and differ in op or in value are separate inputs, and a token with
\* an empty op gives a reference with an empty op_name.
C5_DedupByTriple ==
    \A i \in DOMAIN ops :
        /\ \A r \in AllRefs :
              Count(ops[i].inputs, ParamOf(r)) =
                  IF r \in Range(Embedded(ops[i])) THEN 1 ELSE 0
        /\ Len(ops[i].inputs) = Cardinality(Range(Embedded(ops[i])))

\* the token of A three times (twice in one command string, once in the
\* arguments) gives one input; A, C and D, which share the name x, give three
C5_Witness ==
    \E i \in DOMAIN ops :
        /\ Count(Embedded(ops[i]), RefA) >= 2
        /\ Count(ops[i].inputs, ParamOf(RefA)) = 1
        /\ Count(ops[i].inputs, ParamOf(RefC)) = 1
        /\ Count(ops[i].inputs, [name |-> <<"x">>, op_name |-> <<>>, value |-> Some(<<"1">>)]) = 1
        /\ Len(ops[i].inputs) = 3

DeclaredKeys(op) == IF op.file_outputs = None THEN {} ELSE Keys(TheValue(op.file_outputs))

\* C6: outputs has one entry for each key of file_outputs and no other (none
\* when file_outputs is None or empty); the entry of a key is the reference
\* of that name, of the identity under which the op is registered, with no
\* value; output is that reference when there is exactly one key, and None
\* otherwise.
C6_OutputsPerDeclaredKey ==
    \A i \in DOMAIN ops :
        /\ Keys(ops[i].outputs) = DeclaredKeys(ops[i])
        /\ Cardinality(ops[i].outputs) = Cardinality(DeclaredKeys(ops[i]))
        /\ \A p \in ops[i].outputs :
              p[2] = [name |-> p[1], op_name |-> ops[i].name, value |-> None]
        /\ \E d \in DOMAIN stack : \E k \in DOMAIN stack[d].nodes :
              /\ stack[d].nodes[k] = i
              /\ ops[i].name \in stack[d].used_identities
        /\ ops[i].output =
              IF Cardinality(DeclaredKeys(ops[i])) = 1
              THEN {p[2] : p \in ops[i].outputs}
              ELSE None

\* an op displayed as "T" and registered as "t" whose one declared output
\* "model" is its default output
C6_Witness ==
    \E i \in DOMAIN ops :
        /\ ops[i].human_name = <<"T">>
        /\ ops[i].name = <<"t">>
        /\ ops[i].file_outputs = Some({OutModel})
        /\ ops[i].output = Some([name |-> OutModel[1], op_name |-> <<"t">>, value |-> None])

(***************************************************************************)
(* The token round trip: the pipeline function holds one PipelineParam     *)
(* whose op, name and value are drawn from all strings up to MaxField      *)
(* characters over small alphabets, and constructs ops whose command is    *)
(* the string of that parameter.                                           *)
(***************************************************************************)
Strings(alphabet, n) == UNION {[1..k -> alphabet] : k \in 0..n}

TokenOps == Strings({"a", "-"}, MaxField)
TokenNames == Strings({"x", " "}, MaxField) \ {<<>>}
TokenValues == Strings({"1", "}", "\n"}, MaxField)

\* str(param)
Str(param) ==
    Serialize(param.op_name, param.name,
              IF param.value = None THEN <<>> ELSE TheValue(param.value))

InitToken ==
    /\ stack = <<>>
    /\ ops = <<>>
    /\ params \in {<<PipelineParam(n, o, Some(v))>> :
                      o \in TokenOps, n \in TokenNames, v \in TokenValues}
    /\ last = Call("PipelineParam", 0, <<>>, "")

TokenEnter ==
    /\ ~HasDefaultPipeline
    /\ EnterPipeline

TokenConstruct ==
    /\ Len(ops) < MaxWired
    /\ \E k \in DOMAIN params :
          ContainerOpInit(<<"T">>, Image, Some(<<Str(params[k])>>), None, None, FALSE)

NextToken == TokenEnter \/ TokenConstruct

SpecToken == InitToken /\ [][NextToken]_vars

\* v holds no "}}"
NoClose(v) == \A g \in 1..(Len(v) - 1) : ~(v[g] = "}" /\ v[g + 1] = "}")

\* op was constructed from the string of param alone
ScannedFrom(op, param) == op.command = Some(<<Str(param)>>) /\ op.arguments = None

\* C8 as stated: when the value holds no "}}", the scan of the serialized
\* token gives exactly one reference, that of (op, name, value).
C8_RoundTrip ==
    \A i \in DOMAIN ops : \A k \in DOMAIN params :
        (ScannedFrom(ops[i], params[k]) /\ NoClose(TheValue(params[k].value)))
        => ops[i].inputs = <<params[k]>>

\* C8 as amended: when the value holds no "}}", does not end with "}" and
\* holds no newline, the scan of the serialized token gives exactly one
\* reference, that of (op, name, value).
C8_RoundTripClosedValue ==
    \A i \in DOMAIN ops : \A k \in DOMAIN params :
        LET v == TheValue(params[k].value)
        IN (/\ ScannedFrom(ops[i], params[k])
            /\ NoClose(v)
            /\ (v = <<>> \/ v[Len(v)] # "}")
            /\ \A g \in DOMAIN v : v[g] # "\n")
           => ops[i].inputs = <<params[k]>>

\* the round trip of op "a-", name "x " and value "}1"
C8_Witness ==
    \E i \in DOMAIN ops :
        /\ params[1] = [name |-> <<"x", " ">>, op_name |-> <<"a", "-">>,
                        value |-> Some(<<"}", "1">>)]
        /\ ScannedFrom(ops[i], params[1])
        /\ ops[i].inputs = <<params[1]>>

(***************************************************************************)
(* Building: in one pipeline, ops are constructed and then configured with *)
(* after() and the setters, with arguments the validators accept and       *)
(* arguments they reject.                                                  *)
(***************************************************************************)
\* ops a pipeline under configuration holds
MaxBuilt == 2
\* entries of the dicts and lists of all ops together
MaxSettings == 2

\* "1G", "2Mi" and the malformed "1GB", ""
GoodMemory == {<<"1","G">>, <<"2","M","i">>}
BadMemory == {<<"1","G","B">>, <<>>}
\* "5m", ".5" and the malformed "m", "5n"
GoodCpu == {<<"5","m">>, <<".","5">>}
BadCpu == {<<"m">>, <<"5","n">>}
\* "1" and the non-positive "0", "-1" and the non-integer "1.5"
GoodGpu == {<<"1">>}
BadGpu == {<<"0">>, <<"-","1">>, <<"1",".","5">>}
GoodVendors == {"nvidia", "amd"}
BadVendors == {"intel"}

\* the entries of the dicts and lists of one op
Settings(op) ==
    Cardinality(op.resource_limits) + Cardinality(op.resource_requests)
    + Cardinality(op.node_selector) + Len(op.volumes)
    + Len(op.volume_mounts) + Len(op.env_variables)
    + Cardinality(op.pod_annotations) + Cardinality(op.pod_labels)
    + Len(op.dependent_op_names)
    + (IF op.num_retries # 0 THEN 1 ELSE 0)

\* more settings fit
CanSet ==
    LET total[k \in 0..Len(ops)] ==
            IF k = 0 THEN 0 ELSE total[k - 1] + Settings(ops[k])
    IN total[Len(ops)] < MaxSettings

BuilderEnter ==
    /\ ~HasDefaultPipeline
    /\ EnterPipeline

BuilderConstruct ==
    /\ Len(ops) < MaxBuilt
    /\ ContainerOpInit(<<"T">>, Image, Some(<<Render(TextB)>>), None,
                       Some({OutModel}), FALSE)

BuilderAfter ==
    /\ CanSet
    /\ \E i, j \in DOMAIN ops : After(i, j)

BuilderSetMemoryRequest ==
    /\ CanSet
    /\ \E i \in DOMAIN ops : set_memory_request(i, <<"1", "G">>)

BuilderSetMemoryLimit ==
    /\ CanSet
    /\ \E i \in DOMAIN ops : set_memory_limit(i, <<"1", "G">>)

BuilderSetCpuRequest ==
    /\ CanSet
    /\ \E i \in DOMAIN ops : set_cpu_request(i, <<"5", "m">>)

BuilderSetCpuLimit ==
    /\ CanSet
    /\ \E i \in DOMAIN ops : set_cpu_limit(i, <<"5", "m">>)

BuilderSetGpuLimit ==
    /\ CanSet
    /\ \E i \in DOMAIN ops : set_gpu_limit(i, <<"1">>, "nvidia")

BuilderAddResourceLimit ==
    /\ CanSet
    /\ \E i \in DOMAIN ops : add_resource_limit(i, "memory", <<"9">>)

BuilderAddResourceRequest ==
    /\ CanSet
    /\ \E i \in DOMAIN ops : add_resource_request(i, "memory", <<"9">>)

BuilderAddVolume ==
    /\ CanSet
    /\ \E i \in DOMAIN ops : add_volume(i, <<"v">>)

BuilderAddVolumeMount ==
    /\ CanSet
    /\ \E i \in DOMAIN ops : add_volume_mount(i, <<"m">>)

BuilderAddEnvVariable ==
    /\ CanSet
    /\ \E i \in DOMAIN ops : add_env_variable(i, <<"e">>)

BuilderAddNodeSelectorConstraint ==
    /\ CanSet
    /\ \E i \in DOMAIN ops : add_node_selector_constraint(i, "zone", <<"z">>)

BuilderAddPodAnnotation ==
    /\ CanSet
    /\ \E i \in DOMAIN ops : add_pod_annotation(i, "note", <<"n">>)

BuilderAddPodLabel ==
    /\ CanSet
    /\ \E i \in DOMAIN ops : add_pod_label(i, "app", <<"l">>)

BuilderSetRetry ==
    /\ CanSet
    /\ \E i \in DOMAIN ops : set_retry(i, 3)

NextBuilder ==
    \/ BuilderEnter
    \/ BuilderConstruct
    \/ BuilderAfter
    \/ BuilderSetMemoryRequest
    \/ BuilderSetMemoryLimit
    \/ BuilderSetCpuRequest
    \/ BuilderSetCpuLimit
    \/ BuilderSetGpuLimit
    \/ BuilderAddResourceLimit
    \/ BuilderAddResourceRequest
    \/ BuilderAddVolume
    \/ BuilderAddVolumeMount
    \/ BuilderAddEnvVariable
    \/ BuilderAddNodeSelectorConstraint
    \/ BuilderAddPodAnnotation
    \/ BuilderAddPodLabel
    \/ BuilderSetRetry

SpecBuilder == Init /\ [][NextBuilder]_vars

(***************************************************************************)
(* Resources: in one pipeline, ops are constructed and their resource      *)
(* requests and limits are set, with arguments the validators accept and   *)
(* arguments they reject.                                                  *)
(***************************************************************************)
ResourcesEnter ==
    /\ ~HasDefaultPipeline
    /\ EnterPipeline

ResourcesConstruct ==
    /\ Len(ops) < MaxWired
    /\ ContainerOpInit(<<"T">>, Image, None, None, None, FALSE)

ResourcesSetMemoryRequest ==
    /\ CanSet
    /\ \E i \in DOMAIN ops, memory \in GoodMemory \cup BadMemory : set_memory_request(i, memory)

ResourcesSetMemoryLimit ==
    /\ CanSet
    /\ \E i \in DOMAIN ops, memory \in GoodMemory \cup BadMemory : set_memory_limit(i, memory)

ResourcesSetCpuRequest ==
    /\ CanSet
    /\ \E i \in DOMAIN ops, cpu \in GoodCpu \cup BadCpu : set_cpu_request(i, cpu)

ResourcesSetCpuLimit ==
    /\ CanSet
    /\ \E i \in DOMAIN ops, cpu \in GoodCpu \cup BadCpu : set_cpu_limit(i, cpu)

ResourcesSetGpuLimit ==
    /\ CanSet
    /\ \E i \in DOMAIN ops, gpu \in GoodGpu \cup BadGpu,
          vendor \in GoodVendors \cup BadVendors : set_gpu_limit(i, gpu, vendor)

NextResources ==
    \/ ResourcesEnter
    \/ ResourcesConstruct
    \/ ResourcesSetMemoryRequest
    \/ ResourcesSetMemoryLimit
    \/ ResourcesSetCpuRequest
    \/ ResourcesSetCpuLimit
    \/ ResourcesSetGpuLimit

SpecResources == Init /\ [][NextResources]_vars

(***************************************************************************)
(* Properties of after() and the setters, under SpecBuilder.               *)
(***************************************************************************)
\* C7: a.after(b) appends b's identity to a's dependent_op_names and changes
\* nothing else: a's inputs, outputs, identity and every other attribute,
\* every other op (b, when it is not a itself) and the pipelines are as
\* they were.
C7_AfterAddsOneEdge ==
    [][last'.call = "after"
       => LET a == last'.self
              b == last'.args[1]
          IN /\ ops'[a].dependent_op_names =
                    Append(ops[a].dependent_op_names, ops[b].name)
             /\ ops'[a].inputs = ops[a].inputs
             /\ ops'[a].outputs = ops[a].outputs
             /\ ops'[a].name = ops[a].name
             /\ ops'[a] = [ops[a] EXCEPT !.dependent_op_names = ops'[a].dependent_op_names]
             /\ DOMAIN ops' = DOMAIN ops
             /\ \A k \in DOMAIN ops : k # a => ops'[k] = ops[k]
             /\ stack' = stack
             /\ last'.raised = ""]_vars

\* the second op after the first: it depends on "t", the identity of the
\* op displayed as "T", and keeps its input
C7_Witness ==
    /\ last.call = "after"
    /\ last.self = 2 /\ last.args = <<1>>
    /\ ops[1].human_name = <<"T">>
    /\ ops[2].dependent_op_names = <<<<"t">>>>
    /\ ops[1].dependent_op_names = <<>>
    /\ Len(ops[2].inputs) = 1

\* the calls that are not after(): they are builder-style setters
Setters == {"set_memory_request", "set_memory_limit", "set_cpu_request", "set_cpu_limit",
            "set_gpu_limit", "add_resource_limit", "add_resource_request", "add_volume",
            "add_volume_mount", "add_env_variable", "add_node_selector_constraint",
            "add_pod_annotation", "add_pod_label", "set_retry"}

\* C10: a newly constructed op has no dependencies, also when its command
\* embeds references (they are its inputs); afterwards the dependencies of
\* an op change only in a call of after() on it, which appends one identity
\* of an op; and no setter changes the dependencies, inputs, outputs or
\* identity of any op.
C10_OnlyAfterAddsDependencies ==
    [][/\ (last'.call = "ContainerOp" /\ last'.raised = "")
          => /\ ops'[last'.self].dependent_op_names = <<>>
             /\ last'.self \notin DOMAIN ops
       /\ \A k \in DOMAIN ops :
             /\ k \in DOMAIN ops'
             /\ ops'[k].dependent_op_names # ops[k].dependent_op_names
                => /\ last'.call = "after" /\ last'.self = k
                   /\ \E b \in DOMAIN ops :
                         ops'[k].dependent_op_names =
                             Append(ops[k].dependent_op_names, ops[b].name)
             /\ last'.call \in Setters
                => /\ ops'[k].dependent_op_names = ops[k].dependent_op_names
                   /\ ops'[k].inputs = ops[k].inputs
                   /\ ops'[k].outputs = ops[k].outputs
                   /\ ops'[k].output = ops[k].output
                   /\ ops'[k].name = ops[k].name]_vars

\* an op with an input and no dependency of its own, configured by a
\* setter after another op was put after it
C10_Witness ==
    /\ last.call \in Setters
    /\ Len(ops[last.self].inputs) = 1
    /\ ops[last.self].dependent_op_names = <<>>
    /\ \E k \in DOMAIN ops : ops[k].dependent_op_names = <<ops[last.self].name>>

(***************************************************************************)
(* Properties of the validating setters, under SpecResources.              *)
(***************************************************************************)
\* ops with the entry of key in field f of op i set to value, and field f
\* of op i otherwise as it was
WithEntry(i, f, key, value) ==
    [ops EXCEPT ![i] =
        [n \in DOMAIN ops[i] |->
            IF n = f THEN {p \in ops[i][f] : p[1] # key} \cup {<<key, value>>}
            ELSE ops[i][n]]]

\* whether the arguments of the call are ones the setter must reject
Rejected(c) ==
    CASE c.call \in {"set_memory_request", "set_memory_limit"} -> c.args[1] \in BadMemory
      [] c.call \in {"set_cpu_request", "set_cpu_limit"} -> c.args[1] \in BadCpu
      [] c.call = "set_gpu_limit" -> c.args[1] \in BadGpu \/ c.args[2] \in BadVendors
      [] OTHER -> FALSE

\* the ops after the call, had it been accepted
Accepted(c) ==
    CASE c.call = "set_memory_request" ->
             WithEntry(c.self, "resource_requests", "memory", c.args[1])
      [] c.call = "set_memory_limit" ->
             WithEntry(c.self, "resource_limits", "memory", c.args[1])
      [] c.call = "set_cpu_request" ->
             WithEntry(c.self, "resource_requests", "cpu", c.args[1])
      [] c.call = "set_cpu_limit" ->
             WithEntry(c.self, "resource_limits", "cpu", c.args[1])
      [] c.call = "set_gpu_limit" ->
             WithEntry(c.self, "resource_limits",
                       IF c.args[2] = "amd" THEN "amd.com/gpu" ELSE "nvidia.com/gpu",
                       c.args[1])

ValidatingSetters == {"set_memory_request", "set_memory_limit", "set_cpu_request",
                      "set_cpu_limit", "set_gpu_limit"}

\* C9: a validating setter called with a malformed memory or cpu string, a
\* GPU count that is no integer or not positive, or a GPU vendor other than
\* nvidia and amd raises, and every op (its resource_requests and
\* resource_limits included) and the pipelines are as before the call; a
\* call it accepts sets the one key of the one dict to the value given and
\* changes nothing else.
C9_RejectedSetterChangesNothing ==
    [][last'.call \in ValidatingSetters
       => /\ stack' = stack
          /\ IF Rejected(last')
             THEN last'.raised # "" /\ ops' = ops
             ELSE last'.raised = "" /\ ops' = Accepted(last')]_vars

\* a GPU limit with vendor "intel" was rejected on an op that keeps the
\* GPU limit set before
C9_Witness ==
    /\ last.call = "set_gpu_limit"
    /\ last.args[2] = "intel"
    /\ last.raised = InvalidVendor
    /\ ops[last.self].resource_requests = {}
    /\ ops[last.self].resource_limits = {<<"nvidia.com/gpu", <<"1">>>>}

=============================================================================
